---- MODULE Spec2Model ----
(***************************************************************************)
(* Model of rht-b/logpraser: the log line parser (logline.go), the         *)
(* per-thread log writer with its three queries (sync_log_writer.go) and   *)
(* the raw file ingestor (second half of sync_log_writer.go).              *)
(*                                                                         *)
(* Text is modelled as a sequence of one-character strings, so that the    *)
(* separators of the line grammar, the output path pattern and the         *)
(* timestamp layouts are computed character by character.                  *)
(* A time.Time (always UTC here) is the record [day, ms]: whole days since *)
(* 0001-01-01 (the zero time.Time) and the millisecond of that day.        *)
(***************************************************************************)
EXTENDS Integers, Sequences, FiniteSets, TLC

VARIABLES
    threadsMetadata,  \* SyncLogWriter.threadsMetadata: threadId -> threadFileMetadata
    files,            \* the files under ./mergedlogs: path -> sequence of written lines
    written,          \* history: threadId -> the LogLines whose Write returned nil, in order
    writeFailed,      \* history: some call of Write has returned an error
    lastWrite,        \* history: the last call on the writer: for a Write the threadId
                      \* and message of its argument and the error it returned
    phase,            \* position of main(): "ingest", then "queried" or "closed"
    queryResult,      \* the value returned by the last query
    rawlogs,          \* the files under ./rawlogs: file name -> sequence of lines
    ingest,           \* position and outcome of ProcessRawLogFiles
    lineText,         \* input of ParseLogline
    parsed,           \* result of ParseLogline(lineText)
    rendered          \* result of String() on the parsed line, and of parsing it again

vars == <<threadsMetadata, files, written, writeFailed, lastWrite, phase, queryResult,
          rawlogs, ingest, lineText, parsed, rendered>>

trackerVars == <<threadsMetadata, files, written, writeFailed, lastWrite>>
ingestVars == <<rawlogs, ingest>>
parseVars == <<lineText, parsed, rendered>>

Nil == "nil"

-----------------------------------------------------------------------------
(* Text helpers (Go strings package).                                      *)

DigitChars == <<"0", "1", "2", "3", "4", "5", "6", "7", "8", "9">>

isDigitChar(c) == \E i \in 1..10 : DigitChars[i] = c

DigitVal(c) == (CHOOSE i \in 1..10 : DigitChars[i] = c) - 1

\* isDigit(s, i) of package time, with i counted from 1.
isDigit(s, i) == i <= Len(s) /\ isDigitChar(s[i])

Drop(s, n) == SubSeq(s, n + 1, Len(s))

Take(s, n) == SubSeq(s, 1, n)

HasPrefix(s, p) == Len(s) >= Len(p) /\ Take(s, Len(p)) = p

\* strings.Index, counted from 1; 0 when sep does not occur.
Index(s, sep) ==
    LET hits == {i \in 1..(Len(s) - Len(sep) + 1) : SubSeq(s, i, i + Len(sep) - 1) = sep}
    IN IF hits = {} THEN 0 ELSE CHOOSE i \in hits : \A j \in hits : i <= j

\* strings.SplitN(s, sep, 2)
SplitN2(s, sep) ==
    LET i == Index(s, sep)
    IN IF i = 0 THEN <<s>> ELSE <<Take(s, i - 1), Drop(s, i + Len(sep) - 1)>>

\* strings.Split(s, sep)
RECURSIVE Split(_, _)
Split(s, sep) ==
    LET i == Index(s, sep)
    IN IF i = 0 THEN <<s>>
       ELSE <<Take(s, i - 1)>> \o Split(Drop(s, i + Len(sep) - 1), sep)

RECURSIVE Concat(_)
Concat(ss) == IF ss = <<>> THEN <<>> ELSE Head(ss) \o Concat(Tail(ss))

\* %02d, %03d, %04d of a natural number
RECURSIVE Pad(_, _)
Pad(n, width) ==
    IF width = 0 THEN <<>>
    ELSE Pad(n \div 10, width - 1) \o <<DigitChars[(n % 10) + 1]>>

-----------------------------------------------------------------------------
(* Package time: time.Parse with the layout of ParseLogline, time.Time's   *)
(* comparisons and String().                                               *)

MsPerDay == 86400000

Time(day, ms) == [day |-> day, ms |-> ms]

\* time.Time{}
ZeroTime == Time(0, 0)

Before(t, u) == t.day < u.day \/ (t.day = u.day /\ t.ms < u.ms)

After(t, u) == Before(u, t)

Equal(t, u) == t.day = u.day /\ t.ms = u.ms

\* t.Sub(u).Milliseconds()
SubMs(t, u) == (t.day - u.day) * MsPerDay + (t.ms - u.ms)

IsLeap(y) == y % 4 = 0 /\ (y % 100 # 0 \/ y % 400 = 0)

daysIn(m, y) ==
    IF m = 2 THEN (IF IsLeap(y) THEN 29 ELSE 28)
    ELSE IF m \in {4, 6, 9, 11} THEN 30 ELSE 31

RECURSIVE DaysBeforeMonth(_, _)
DaysBeforeMonth(m, y) ==
    IF m = 1 THEN 0 ELSE DaysBeforeMonth(m - 1, y) + daysIn(m - 1, y)

\* days from 0001-01-01 to y-m-d in the proleptic Gregorian calendar
DaysFromCivil(y, m, d) ==
    365 * (y - 1) + ((y - 1) \div 4) - ((y - 1) \div 100) + ((y - 1) \div 400)
        + DaysBeforeMonth(m, y) + (d - 1)

\* the inverse of DaysFromCivil: <<year, month, day>>
CivilFromDays(days) ==
    LET z == days + 306
        era == z \div 146097
        doe == z - era * 146097
        yoe == (doe - (doe \div 1460) + (doe \div 36524) - (doe \div 146096)) \div 365
        doy == doe - (365 * yoe + (yoe \div 4) - (yoe \div 100))
        mp == (5 * doy + 2) \div 153
        d == doy - ((153 * mp + 2) \div 5) + 1
        m == IF mp < 10 THEN mp + 3 ELSE mp - 9
        y == yoe + era * 400 + (IF m <= 2 THEN 1 ELSE 0)
    IN <<y, m, d>>

\* getnum(s, fixed) of package time: [ok, n, rest]
getnum(s, fixed) ==
    IF ~isDigit(s, 1) THEN [ok |-> FALSE, n |-> 0, rest |-> s]
    ELSE IF ~isDigit(s, 2)
         THEN IF fixed THEN [ok |-> FALSE, n |-> 0, rest |-> s]
              ELSE [ok |-> TRUE, n |-> DigitVal(s[1]), rest |-> Drop(s, 1)]
    ELSE [ok |-> TRUE, n |-> DigitVal(s[1]) * 10 + DigitVal(s[2]), rest |-> Drop(s, 2)]

RECURSIVE leadingInt(_)
\* the value of a sequence of digits (0 for the empty one)
leadingInt(s) ==
    IF s = <<>> THEN 0 ELSE leadingInt(Take(s, Len(s) - 1)) * 10 + DigitVal(s[Len(s)])

\* atoi(s) of package time: an optional sign, then digits only
atoi(s) ==
    LET signed == Len(s) > 0 /\ s[1] \in {"-", "+"}
        body == IF signed THEN Drop(s, 1) ELSE s
    IN IF \E i \in 1..Len(body) : ~isDigitChar(body[i])
       THEN [ok |-> FALSE, n |-> 0]
       ELSE [ok |-> TRUE,
             n |-> IF signed /\ s[1] = "-" THEN 0 - leadingInt(body) ELSE leadingInt(body)]

RECURSIVE cutspace(_)
cutspace(s) == IF Len(s) > 0 /\ s[1] = " " THEN cutspace(Drop(s, 1)) ELSE s

\* skip(value, prefix) of package time for a one-character prefix: a space of
\* the layout matches any run of spaces, any other character matches itself.
skip(value, c) ==
    IF c = " "
    THEN IF Len(value) > 0 /\ value[1] # " "
         THEN [ok |-> FALSE, rest |-> value]
         ELSE [ok |-> TRUE, rest |-> cutspace(value)]
    ELSE IF Len(value) = 0 \/ value[1] # c
         THEN [ok |-> FALSE, rest |-> value]
         ELSE [ok |-> TRUE, rest |-> Drop(value, 1)]

commaOrPeriod(c) == c \in {",", "."}

BadTime == [ok |-> FALSE, t |-> ZeroTime]

\* time.Parse("2006-01-02 15:04:05,000", value): [ok, t]
TimeParse(value) ==
    LET year == atoi(Take(value, 4))
        v1 == skip(Drop(value, 4), "-")
        month == getnum(v1.rest, TRUE)
        v2 == skip(month.rest, "-")
        day == getnum(v2.rest, TRUE)
        v3 == skip(day.rest, " ")
        hour == getnum(v3.rest, FALSE)
        v4 == skip(hour.rest, ":")
        min == getnum(v4.rest, TRUE)
        v5 == skip(min.rest, ":")
        sec == getnum(v5.rest, TRUE)
        frac == atoi(SubSeq(sec.rest, 2, 4))
    IN IF Len(value) < 4 \/ ~isDigit(value, 1) \/ ~year.ok THEN BadTime
       ELSE IF ~v1.ok \/ ~month.ok \/ month.n <= 0 \/ 12 < month.n THEN BadTime
       ELSE IF ~v2.ok \/ ~day.ok THEN BadTime
       ELSE IF ~v3.ok \/ ~hour.ok \/ 24 <= hour.n THEN BadTime
       ELSE IF ~v4.ok \/ ~min.ok \/ 60 <= min.n THEN BadTime
       ELSE IF ~v5.ok \/ ~sec.ok \/ 60 <= sec.n THEN BadTime
       ELSE IF Len(sec.rest) < 4 \/ ~commaOrPeriod(sec.rest[1]) THEN BadTime
       ELSE IF ~frac.ok \/ frac.n < 0 THEN BadTime
       ELSE IF Len(sec.rest) > 4 THEN BadTime
       ELSE IF day.n < 1 \/ day.n > daysIn(month.n, year.n) THEN BadTime
       ELSE [ok |-> TRUE,
             t |-> Time(DaysFromCivil(year.n, month.n, day.n),
                        ((hour.n * 60 + min.n) * 60 + sec.n) * 1000 + frac.n)]

\* the digits of ".999999999" for a millisecond count: trailing zeros dropped,
\* nothing at all for a whole second
FracText(ms) ==
    IF ms = 0 THEN <<>>
    ELSE IF ms % 100 = 0 THEN <<".">> \o Pad(ms \div 100, 1)
    ELSE IF ms % 10 = 0 THEN <<".">> \o Pad(ms \div 10, 2)
    ELSE <<".">> \o Pad(ms, 3)

\* Time.String(), the %v of a time.Time:
\* layout "2006-01-02 15:04:05.999999999 -0700 MST" of a UTC time
TimeString(t) ==
    LET ymd == CivilFromDays(t.day)
        secs == t.ms \div 1000
    IN Pad(ymd[1], 4) \o <<"-">> \o Pad(ymd[2], 2) \o <<"-">> \o Pad(ymd[3], 2)
       \o <<" ">> \o Pad(secs \div 3600, 2) \o <<":">> \o Pad((secs \div 60) % 60, 2)
       \o <<":">> \o Pad(secs % 60, 2) \o FracText(t.ms % 1000)
       \o <<" ", "+", "0", "0", "0", "0", " ", "U", "T", "C">>

\* Time.Format("2006-01-02 15:04:05,000"): the canonical timestamp text
TimeFormatCanonical(t) ==
    LET ymd == CivilFromDays(t.day)
        secs == t.ms \div 1000
    IN Pad(ymd[1], 4) \o <<"-">> \o Pad(ymd[2], 2) \o <<"-">> \o Pad(ymd[3], 2)
       \o <<" ">> \o Pad(secs \div 3600, 2) \o <<":">> \o Pad((secs \div 60) % 60, 2)
       \o <<":">> \o Pad(secs % 60, 2) \o <<",">> \o Pad(t.ms % 1000, 3)

-----------------------------------------------------------------------------
(* logline.go                                                              *)

LogLine(pid, tid, name, ts, msg) ==
    [processID |-> pid, threadID |-> tid, threadName |-> name,
     timestamp |-> ts, message |-> msg]

LogLineParseErr == "log line parse error"

\* the nil *LogLine
NilLogLine == LogLine(<<>>, <<>>, <<>>, ZeroTime, <<>>)

ParseFail == [err |-> LogLineParseErr, ll |-> NilLogLine]

\* ParseLogline(lineText): [err, ll]
ParseLogline(text) ==
    LET textOnceHalvedTokens == SplitN2(text, <<":", ":">>)
        pidThidTokens == Split(textOnceHalvedTokens[1], <<":">>)
        textSecondHalfTokens == SplitN2(textOnceHalvedTokens[2], <<" ", "-", " ">>)
        thNameTsTokens == SplitN2(textSecondHalfTokens[1], <<" ">>)
        ts == TimeParse(thNameTsTokens[2])
    IN IF Len(textOnceHalvedTokens) # 2 THEN ParseFail
       ELSE IF Len(pidThidTokens) # 2 THEN ParseFail
       ELSE IF Len(textSecondHalfTokens) # 2 THEN ParseFail
       ELSE IF Len(thNameTsTokens) # 2 THEN ParseFail
       ELSE IF ~ts.ok THEN ParseFail
       ELSE [err |-> Nil,
             ll |-> LogLine(pidThidTokens[1], pidThidTokens[2], thNameTsTokens[1],
                            ts.t, textSecondHalfTokens[2])]

\* LogLine.String(): fmt.Sprintf("%s:%s::%s %v - %s", ...)
String(ll) ==
    ll.processID \o <<":">> \o ll.threadID \o <<":", ":">> \o ll.threadName
       \o <<" ">> \o TimeString(ll.timestamp) \o <<" ", "-", " ">> \o ll.message

-----------------------------------------------------------------------------
(* sync_log_writer.go: the writer.                                         *)

mergeLogFilePath == <<"m", "e", "r", "g", "e", "d", "l", "o", "g", "s">>

mergeLogFileExtension == <<"l", "o", "g">>

threadLogsStartMarker == <<"*", "*", "S", "T", "A", "R", "T", "*", "*">>

threadLogsEndMarker == <<"*", "*", "E", "N", "D", "*", "*">>

ErrInvalidStart == "invalid start of thread logs"

ErrOpen == "open failed"

ErrWrite == "write failed"

\* os.ErrInvalid, returned by the methods of a nil *os.File
ErrInvalid == "invalid argument"

\* os.ErrClosed, returned by the methods of a closed *os.File
ErrClosed == "file already closed"

\* What the operating system may answer to os.OpenFile and to File.Write.
IoOutcomes == {"ok", "openFail", "writeFail"}

\* filepath.Join(mergeLogFilePath, fmt.Sprintf("%s-%s.%s", pid, tid, ext))
FilePath(ll) ==
    mergeLogFilePath \o <<"/">> \o ll.processID \o <<"-">> \o ll.threadID
        \o <<".">> \o mergeLogFileExtension

\* an open *os.File on the file called name
OpenFd(name) == [nil |-> FALSE, name |-> name, closed |-> FALSE]

\* the nil *os.File
NilFd == [nil |-> TRUE, name |-> <<>>, closed |-> FALSE]

threadFileMetadata(pid, start, end, fd, path) ==
    [processId |-> pid, logsStartTimestamp |-> start, logsEndTimestamp |-> end,
     logFd |-> fd, logFilepath |-> path]

\* The state of the writer and of the output directory, as the helpers below
\* pass it along.
Tracker(tm, fs) == [tm |-> tm, fs |-> fs]

\* os.OpenFile(filePath, O_RDWR|O_CREATE|O_APPEND): the file is created empty
\* when it does not exist and is kept as it is when it does.
CreateFile(fs, path) == IF path \in DOMAIN fs THEN fs ELSE (path :> <<>>) @@ fs

\* initialize without its check of the start marker
initializeAnyMessage(tm, fs, ll, io) ==
    IF io = "openFail"
    THEN [err |-> ErrOpen, tm |-> tm, fs |-> fs]
    ELSE [err |-> Nil,
          tm |-> (ll.threadID :> threadFileMetadata(ll.processID, ll.timestamp,
                                     ZeroTime, OpenFd(FilePath(ll)), FilePath(ll))) @@ tm,
          fs |-> CreateFile(fs, FilePath(ll))]

\* SyncLogWriter.initialize(ll): [err, tm, fs]
initialize(tm, fs, ll, io) ==
    IF ll.message # threadLogsStartMarker
    THEN [err |-> ErrInvalidStart, tm |-> tm, fs |-> fs]
    ELSE IF io = "openFail"
    THEN [err |-> ErrOpen, tm |-> tm, fs |-> fs]
    ELSE [err |-> Nil,
          tm |-> (ll.threadID :> threadFileMetadata(ll.processID, ll.timestamp,
                                     ZeroTime, OpenFd(FilePath(ll)), FilePath(ll))) @@ tm,
          fs |-> CreateFile(fs, FilePath(ll))]

\* writeLogLine closing the segment of an end marker before it writes the line
writeLogLineEndBeforeAppend(tm, fs, ll, key, io) ==
    LET thState == tm[key]
        msgWithLineBreak == String(ll) \o <<"\n">>
        ended == IF ll.message = threadLogsEndMarker
                 THEN [tm EXCEPT ![key].logsEndTimestamp = ll.timestamp,
                                 ![key].logFd = NilFd]
                 ELSE tm
    IN IF thState.logFd.nil
       THEN [err |-> ErrInvalid, tm |-> tm, fs |-> fs]
       ELSE IF thState.logFd.closed
       THEN [err |-> ErrClosed, tm |-> tm, fs |-> fs]
       ELSE IF io = "writeFail"
       THEN [err |-> ErrWrite, tm |-> ended, fs |-> fs]
       ELSE [err |-> Nil, tm |-> ended,
             fs |-> [fs EXCEPT ![thState.logFd.name] = Append(@, msgWithLineBreak)]]

\* writeLogLine reopening the file of a segment whose logFd is nil
writeLogLineReopening(tm, fs, ll, key, io) ==
    LET thState == tm[key]
        msgWithLineBreak == String(ll) \o <<"\n">>
    IN IF thState.logFd.closed
       THEN [err |-> ErrClosed, tm |-> tm, fs |-> fs]
       ELSE IF io = "writeFail"
       THEN [err |-> ErrWrite, tm |-> tm, fs |-> fs]
       ELSE [err |-> Nil,
             tm |-> IF ll.message = threadLogsEndMarker
                    THEN [tm EXCEPT ![key].logsEndTimestamp = ll.timestamp,
                                    ![key].logFd = NilFd]
                    ELSE [tm EXCEPT ![key].logFd = OpenFd(thState.logFilepath)],
             fs |-> [fs EXCEPT ![thState.logFilepath] = Append(@, msgWithLineBreak)]]

\* SyncLogWriter.writeLogLine(ll, thState), thState being tm[key]: [err, tm, fs]
writeLogLine(tm, fs, ll, key, io) ==
    LET thState == tm[key]
        msgWithLineBreak == String(ll) \o <<"\n">>
    IN IF thState.logFd.nil
       THEN [err |-> ErrInvalid, tm |-> tm, fs |-> fs]
       ELSE IF thState.logFd.closed
       THEN [err |-> ErrClosed, tm |-> tm, fs |-> fs]
       ELSE IF io = "writeFail"
       THEN [err |-> ErrWrite, tm |-> tm, fs |-> fs]
       ELSE [err |-> Nil,
             tm |-> IF ll.message = threadLogsEndMarker
                    THEN [tm EXCEPT ![key].logsEndTimestamp = ll.timestamp,
                                    ![key].logFd = NilFd]
                    ELSE tm,
             fs |-> [fs EXCEPT ![thState.logFd.name] = Append(@, msgWithLineBreak)]]

\* Write initializing the segment again at every start marker
WriteResultRestarting(tm, fs, ll, io) ==
    LET ok == ll.threadID \in DOMAIN tm /\ ll.message # threadLogsStartMarker
        init == IF ok THEN [err |-> Nil, tm |-> tm, fs |-> fs]
                ELSE initialize(tm, fs, ll, io)
    IN IF init.err # Nil
       THEN init
       ELSE writeLogLine(init.tm, init.fs, ll, ll.threadID, io)

\* SyncLogWriter.Write(ll): [err, tm, fs]
WriteResult(tm, fs, ll, io) ==
    LET ok == ll.threadID \in DOMAIN tm
        init == IF ok THEN [err |-> Nil, tm |-> tm, fs |-> fs]
                ELSE initialize(tm, fs, ll, io)
    IN IF init.err # Nil
       THEN init
       ELSE writeLogLine(init.tm, init.fs, ll, ll.threadID, io)

\* lastWrite before any call
NoCall == [op |-> "none", threadID |-> <<>>, message |-> <<>>, err |-> Nil]

WrittenOf(t) == IF t \in DOMAIN written THEN written[t] ELSE <<>>

\* The state after a call of Write(ll) that returns r, with the histories of
\* the written records and of the failed calls kept up to date.
WriteReturns(ll, r) ==
    /\ threadsMetadata' = r.tm
    /\ files' = r.fs
    /\ written' = IF r.err = Nil
                  THEN (ll.threadID :> Append(WrittenOf(ll.threadID), ll)) @@ written
                  ELSE written
    /\ writeFailed' = (writeFailed \/ r.err # Nil)

\* One call of Write under the answer io of the operating system.
Write(ll, io) == WriteReturns(ll, WriteResult(threadsMetadata, files, ll, io))

\* lastWrite after a call of Write(ll) that returns r
CallReturns(ll, r) ==
    [op |-> "Write", threadID |-> ll.threadID, message |-> ll.message, err |-> r.err]

\* lastWrite after Write(ll) under the answer io of the operating system
WriteCall(ll, io) == CallReturns(ll, WriteResult(threadsMetadata, files, ll, io))

\* Close marking the file of every segment closed, the nil ones too
CloseResultEverySegment(tm) ==
    [t \in DOMAIN tm |-> [tm[t] EXCEPT !.logFd.closed = TRUE]]

\* SyncLogWriter.Close(): every file that is not nil is synced and closed.
CloseResult(tm) ==
    [t \in DOMAIN tm |->
        IF ~tm[t].logFd.nil THEN [tm[t] EXCEPT !.logFd.closed = TRUE] ELSE tm[t]]

-----------------------------------------------------------------------------
(* Specification Spec: a fresh writer (NewLogWriter on an empty            *)
(* ./mergedlogs) receiving any sequence of Write and Close calls.          *)

\* Bound of Spec: the number of lines written to the output directory (the
\* calls that write nothing are not counted).
MaxWrites == 2

EmptyMap == <<>>

\* The (processId, threadId) pairs of the records: two thread ids, "c" logged
\* by two processes, and "a"/"b-c" and "a-b"/"c" giving the same file name.
Senders == {<<(<<"a">>), (<<"b", "-", "c">>)>>,
            <<(<<"a", "-", "b">>), (<<"c">>)>>,
            <<(<<"a">>), (<<"c">>)>>}

ThreadNames == {<<"n">>}

Messages == {threadLogsStartMarker, threadLogsEndMarker, <<"m">>}

TimeStamps == {Time(0, 1), Time(0, 2)}

\* The LogLines handed to Write.
WriteInputs ==
    {LogLine(s[1], s[2], n, ts, m) :
        s \in Senders, n \in ThreadNames, ts \in TimeStamps, m \in Messages}

\* The answers of the operating system that a Write of ll can meet.
IoFor(ll) ==
    {"ok"}
    \cup (IF ll.threadID \notin DOMAIN threadsMetadata /\ ll.message = threadLogsStartMarker
          THEN {"openFail"} ELSE {})
    \cup (IF ll.threadID \notin DOMAIN threadsMetadata
             \/ (~threadsMetadata[ll.threadID].logFd.nil
                 /\ ~threadsMetadata[ll.threadID].logFd.closed)
          THEN {"writeFail"} ELSE {})

RECURSIVE SumLen(_, _)
SumLen(f, dom) ==
    IF dom = {} THEN 0
    ELSE LET x == CHOOSE y \in dom : TRUE IN Len(f[x]) + SumLen(f, dom \ {x})

\* Number of lines in the output directory.
TotalLines == SumLen(files, DOMAIN files)

TrackerInit ==
    /\ threadsMetadata = EmptyMap
    /\ files = EmptyMap
    /\ written = EmptyMap
    /\ writeFailed = FALSE
    /\ lastWrite = NoCall

\* queryResult before any query
NoQuery == [op |-> "none"]

IdleQuery == phase = "ingest" /\ queryResult = NoQuery

\* ingest before ProcessRawLogFiles is called: file and line are the position
\* in the directory listing and in the file, ret the returned error, and
\* outcome[i] what convertProcessLogFile returned for file i and the line it
\* stopped at
NoIngest == [pc |-> "idle", file |-> 0, line |-> 0, ret |-> Nil, outcome |-> <<>>]

IdleIngest == rawlogs = <<>> /\ ingest = NoIngest

\* parsed before ParseLogline is called
NoParse == [done |-> FALSE, err |-> Nil, ll |-> NilLogLine]

\* rendered before String is called
NoRender == [done |-> FALSE, text |-> <<>>, again |-> NoParse]

IdleParse == lineText = <<>> /\ parsed = NoParse /\ rendered = NoRender

Init == TrackerInit /\ IdleQuery /\ IdleIngest /\ IdleParse

WriteStep ==
    /\ phase = "ingest"
    /\ \E ll \in WriteInputs : \E io \in IoFor(ll) :
          LET r == WriteResult(threadsMetadata, files, ll, io)
          IN /\ SumLen(r.fs, DOMAIN r.fs) <= MaxWrites
             /\ WriteReturns(ll, r)
             /\ lastWrite' = CallReturns(ll, r)
    /\ UNCHANGED <<phase, queryResult, ingestVars, parseVars>>

\* main() defers Close: it is the last call on the writer.
CloseStep ==
    /\ phase # "closed"
    /\ threadsMetadata' = CloseResult(threadsMetadata)
    /\ lastWrite' = [NoCall EXCEPT !.op = "Close"]
    /\ phase' = "closed"
    /\ UNCHANGED <<files, written, writeFailed, queryResult, ingestVars, parseVars>>

Next == WriteStep \/ CloseStep

Spec == Init /\ [][Next]_vars

-----------------------------------------------------------------------------
(* sync_log_writer.go: the three queries. A range over the map visits the  *)
(* thread ids in an order Go leaves unspecified: order is that order, a    *)
(* sequence holding every key of the map once.                             *)

ThreadInfo(pid, tid, path) ==
    [ProcessID |-> pid, ThreadId |-> tid, ThreadFileName |-> path]

\* the sequences that hold every element of S exactly once
Orders(S) ==
    {o \in [1..Cardinality(S) -> S] : \A x \in S : \E i \in DOMAIN o : o[i] = x}

\* the skip of query A, a thread without end timestamp taken as still running
SkippedUnlessRunning(md, startTime, endTime) ==
    \/ Before(endTime, md.logsStartTimestamp)
    \/ /\ ~Equal(md.logsEndTimestamp, ZeroTime)
       /\ After(startTime, md.logsEndTimestamp)

\* the skip of query A, a thread that only touches the range skipped too
SkippedTouching(md, startTime, endTime) ==
    \/ ~After(endTime, md.logsStartTimestamp)
    \/ ~Before(startTime, md.logsEndTimestamp)

\* the condition under which the loop of query A skips a thread
Skipped(md, startTime, endTime) ==
    \/ Before(endTime, md.logsStartTimestamp)
    \/ After(startTime, md.logsEndTimestamp)

RECURSIVE GetActiveThreadCountBetweenInterval(_, _, _, _)
\* GetActiveThreadCountBetweenInterval(startTime, endTime): the list thList
GetActiveThreadCountBetweenInterval(tm, order, startTime, endTime) ==
    IF order = <<>> THEN <<>>
    ELSE LET thID == order[Len(order)]
             thList == GetActiveThreadCountBetweenInterval(
                           tm, Take(order, Len(order) - 1), startTime, endTime)
         IN IF Skipped(tm[thID], startTime, endTime) THEN thList
            ELSE Append(thList, ThreadInfo(tm[thID].processId, thID, tm[thID].logFilepath))

\* the count of query B, the threads that start with the outer one left out
CountsForStartsAfter(inner, outer) ==
    /\ After(inner.logsStartTimestamp, outer.logsStartTimestamp)
    /\ Before(inner.logsStartTimestamp, outer.logsEndTimestamp)

\* the condition under which the inner loop of query B counts a thread
CountsFor(inner, outer) ==
    \/ Equal(inner.logsStartTimestamp, outer.logsStartTimestamp)
    \/ /\ After(inner.logsStartTimestamp, outer.logsStartTimestamp)
       /\ Before(inner.logsStartTimestamp, outer.logsEndTimestamp)

RECURSIVE InnerCount(_, _, _)
\* the inner loop of query B: memo[thId] after it
InnerCount(tm, order, thId) ==
    IF order = <<>> THEN 0
    ELSE InnerCount(tm, Take(order, Len(order) - 1), thId)
         + (IF CountsFor(tm[order[Len(order)]], tm[thId]) THEN 1 ELSE 0)

\* the map memo of query B
Memo(tm, order) == [thId \in DOMAIN tm |-> InnerCount(tm, order, thId)]

RECURSIVE MaxLoopLastFound(_, _, _)
\* the last loop of query B keeping the count it visits last, not the largest
MaxLoopLastFound(tm, memo, order) ==
    IF order = <<>> THEN [maxConcurrency |-> 0, epoch |-> ZeroTime]
    ELSE LET acc == MaxLoopLastFound(tm, memo, Take(order, Len(order) - 1))
             thId == order[Len(order)]
         IN IF memo[thId] > 0
            THEN [maxConcurrency |-> memo[thId], epoch |-> tm[thId].logsStartTimestamp]
            ELSE acc

RECURSIVE MaxLoop(_, _, _)
\* the last loop of query B over memo: [maxConcurrency, epoch]
MaxLoop(tm, memo, order) ==
    IF order = <<>> THEN [maxConcurrency |-> 0, epoch |-> ZeroTime]
    ELSE LET acc == MaxLoop(tm, memo, Take(order, Len(order) - 1))
             thId == order[Len(order)]
         IN IF memo[thId] > acc.maxConcurrency
            THEN [maxConcurrency |-> memo[thId], epoch |-> tm[thId].logsStartTimestamp]
            ELSE acc

\* GetMaxConcurrencyAndEpoch()
GetMaxConcurrencyAndEpoch(tm, order) == MaxLoop(tm, Memo(tm, order), order)

\* runtimeMs of a thread in query C
runtimeMs(md) == SubMs(md.logsEndTimestamp, md.logsStartTimestamp)

RECURSIVE aggRuntime(_, _)
\* the first loop of query C
aggRuntime(tm, order) ==
    IF order = <<>> THEN 0
    ELSE aggRuntime(tm, Take(order, Len(order) - 1)) + runtimeMs(tm[order[Len(order)]])

\* A float64 is modelled by the exact fraction num/den it stands for (no
\* rounding), and NaN by the fraction 0/0.
Frac(num, den) == [num |-> num, den |-> den]

IsNaN(x) == x.den = 0

FracEq(x, y) == x.den # 0 /\ y.den # 0 /\ x.num * y.den = y.num * x.den

RECURSIVE stdSum(_, _, _)
\* the second loop of query C, avgRuntime being agg/n: the sum of the
\* math.Pow(avgRuntime - runtimeMs, 2), as a multiple of 1/n^2
stdSum(tm, order, agg) ==
    IF order = <<>> THEN 0
    ELSE LET d == agg - Cardinality(DOMAIN tm) * runtimeMs(tm[order[Len(order)]])
         IN stdSum(tm, Take(order, Len(order) - 1), agg) + d * d

\* query C with the sample standard deviation (the sum divided by n - 1)
GetAvgSampleStdThreadRuntime(tm, order) ==
    LET n == Cardinality(DOMAIN tm)
        agg == aggRuntime(tm, order)
    IN [avg |-> Frac(agg, n),
        stdSquared |-> Frac(stdSum(tm, order, agg), n * n * (n - 1))]

\* GetAvgStdThreadRuntime(): avg, and std given by its square
GetAvgStdThreadRuntime(tm, order) ==
    LET n == Cardinality(DOMAIN tm)
        agg == aggRuntime(tm, order)
    IN [avg |-> Frac(agg, n),
        stdSquared |-> Frac(stdSum(tm, order, agg), n * n * n)]

-----------------------------------------------------------------------------
(* Specification SpecQuery: main() after NewLogWriter. Well-formed thread  *)
(* logs (a start marker, then an end marker) of three threads are written  *)
(* with any timestamps, then a query is asked.                             *)

\* Bounds of SpecQuery: the timestamps are the multiples of QueryStep
\* milliseconds, up to MaxQueryTime of them, into the day 0001-01-01.
MaxQueryTime == 3

QueryStep == 100

QueryTids == {<<"1">>, <<"2">>, <<"3">>}

QueryTimes == {Time(0, k * QueryStep) : k \in 0..MaxQueryTime}

QueryInputs ==
    {LogLine(<<"p">>, t, <<"n">>, ts, m) :
        t \in QueryTids, ts \in QueryTimes,
        m \in {threadLogsStartMarker, threadLogsEndMarker}}

\* ll continues a well-formed log: the start marker of a new thread, or the
\* end marker of a thread that has started and not ended.
WellFormedNext(ll) ==
    IF ll.threadID \in DOMAIN threadsMetadata
    THEN ll.message = threadLogsEndMarker /\ ~threadsMetadata[ll.threadID].logFd.nil
    ELSE ll.message = threadLogsStartMarker

IngestRecord ==
    /\ phase = "ingest"
    /\ \E ll \in QueryInputs : WellFormedNext(ll) /\ Write(ll, "ok")
    /\ UNCHANGED <<lastWrite, phase, queryResult, ingestVars, parseVars>>

QueryA ==
    /\ phase = "ingest"
    /\ \E t1 \in QueryTimes, t2 \in QueryTimes, order \in Orders(DOMAIN threadsMetadata) :
          queryResult' = [op |-> "A", t1 |-> t1, t2 |-> t2,
                          value |-> GetActiveThreadCountBetweenInterval(
                                        threadsMetadata, order, t1, t2)]
    /\ phase' = "queried"
    /\ UNCHANGED <<trackerVars, ingestVars, parseVars>>

QueryB ==
    /\ phase = "ingest"
    /\ \E order \in Orders(DOMAIN threadsMetadata) :
          queryResult' = [op |-> "B",
                          value |-> GetMaxConcurrencyAndEpoch(threadsMetadata, order)]
    /\ phase' = "queried"
    /\ UNCHANGED <<trackerVars, ingestVars, parseVars>>

QueryC ==
    /\ phase = "ingest"
    /\ \E order \in Orders(DOMAIN threadsMetadata) :
          queryResult' = [op |-> "C",
                          value |-> GetAvgStdThreadRuntime(threadsMetadata, order)]
    /\ phase' = "queried"
    /\ UNCHANGED <<trackerVars, ingestVars, parseVars>>

NextQuery == IngestRecord \/ QueryA \/ QueryB \/ QueryC

SpecQuery == Init /\ [][NextQuery]_vars

-----------------------------------------------------------------------------
(* Specification SpecParse: ParseLogline on one line of text, then         *)
(* String() on the LogLine it returns and ParseLogline on that text.       *)

\* timestamp texts: well-formed ones, and ones time.Parse rejects
TsMillis == \* 2020-08-09 18:29:00,005
    <<"2", "0", "2", "0", "-", "0", "8", "-", "0", "9", " ", "1", "8", ":", "2", "9", ":", "0", "0", ",", "0", "0", "5">>

TsWholeSecond == \* 2020-08-09 18:29:01,000
    <<"2", "0", "2", "0", "-", "0", "8", "-", "0", "9", " ", "1", "8", ":", "2", "9", ":", "0", "1", ",", "0", "0", "0">>

TsTenths == \* 2020-02-29 23:59:59,120
    <<"2", "0", "2", "0", "-", "0", "2", "-", "2", "9", " ", "2", "3", ":", "5", "9", ":", "5", "9", ",", "1", "2", "0">>

TsPeriod == \* 0001-01-01 00:00:00.300
    <<"0", "0", "0", "1", "-", "0", "1", "-", "0", "1", " ", "0", "0", ":", "0", "0", ":", "0", "0", ".", "3", "0", "0">>

TsShortHour == \* 2020-08-09 8:29:00,007
    <<"2", "0", "2", "0", "-", "0", "8", "-", "0", "9", " ", "8", ":", "2", "9", ":", "0", "0", ",", "0", "0", "7">>

TsBadMonth == \* 2020-13-09 18:29:00,000
    <<"2", "0", "2", "0", "-", "1", "3", "-", "0", "9", " ", "1", "8", ":", "2", "9", ":", "0", "0", ",", "0", "0", "0">>

TsBadDay == \* 2021-02-29 18:29:00,000
    <<"2", "0", "2", "1", "-", "0", "2", "-", "2", "9", " ", "1", "8", ":", "2", "9", ":", "0", "0", ",", "0", "0", "0">>

TsNoMillis == \* 2020-08-09 18:29:00
    <<"2", "0", "2", "0", "-", "0", "8", "-", "0", "9", " ", "1", "8", ":", "2", "9", ":", "0", "0">>

TimestampTexts ==
    {TsMillis, TsWholeSecond, TsTenths, TsPeriod, TsShortHour, TsBadMonth, TsBadDay,
     TsNoMillis}

ParsePids == {<<>>, <<"p">>, <<"a", "-", "b">>}

ParseTids == {<<>>, <<"t">>, <<"t", ":", "u">>}

ParseNames == {<<>>, <<"n">>}

ParseMessages == {<<>>, threadLogsStartMarker, <<"x", " ", "-", " ", "y">>}

\* the text between the thread id and the thread name, and the text between
\* the timestamp and the message: the separators of the grammar, and wrong ones
HeadSeparators == {<<":", ":">>, <<":">>}

MessageSeparators == {<<" ", "-", " ">>, <<"-">>}

ParseInputs ==
    {pid \o <<":">> \o tid \o sep1 \o name \o <<" ">> \o ts \o sep2 \o msg :
        pid \in ParsePids, tid \in ParseTids, sep1 \in HeadSeparators,
        name \in ParseNames, ts \in TimestampTexts, sep2 \in MessageSeparators,
        msg \in ParseMessages}

InitParse ==
    /\ TrackerInit /\ IdleQuery /\ IdleIngest
    /\ lineText \in ParseInputs
    /\ parsed = NoParse
    /\ rendered = NoRender

ParseStep ==
    /\ ~parsed.done
    /\ parsed' = [done |-> TRUE] @@ ParseLogline(lineText)
    /\ UNCHANGED <<lineText, rendered, trackerVars, phase, queryResult, ingestVars>>

RenderStep ==
    /\ parsed.done /\ parsed.err = Nil /\ ~rendered.done
    /\ rendered' = [done |-> TRUE, text |-> String(parsed.ll),
                    again |-> [done |-> TRUE] @@ ParseLogline(String(parsed.ll))]
    /\ UNCHANGED <<lineText, parsed, trackerVars, phase, queryResult, ingestVars>>

NextParse == ParseStep \/ RenderStep

SpecParse == InitParse /\ [][NextParse]_vars

-----------------------------------------------------------------------------
(* Specification SpecIngest: ProcessRawLogFiles on a directory of raw log  *)
(* files, one step per system call or scanned line.                        *)

\* Bounds of SpecIngest: the number of files of ./rawlogs and the number of
\* lines they hold together.
MaxRawFiles == 2

MaxRawLines == 4

RawStartLine == \* p:1::n 2020-08-09 18:29:00,005 - **START**
    <<"p", ":", "1", ":", ":", "n", " ">> \o TsMillis \o <<" ", "-", " ">>
        \o threadLogsStartMarker

RawEndLine == \* p:1::n 2020-08-09 18:29:01,000 - **END**
    <<"p", ":", "1", ":", ":", "n", " ">> \o TsWholeSecond \o <<" ", "-", " ">>
        \o threadLogsEndMarker

RawBadLine == \* p:1 2020-08-09 18:29:00,005 - m
    <<"p", ":", "1", " ">> \o TsMillis \o <<" ", "-", " ", "m">>

RawLines == {RawStartLine, RawEndLine, RawBadLine}

SeqsUpTo(S, n) == UNION {[1..k -> S] : k \in 0..n}

RECURSIVE DirsOf(_, _)
\* the directories of at most f files that hold at most n lines together
DirsOf(f, n) ==
    IF f = 0 THEN {<<>>}
    ELSE {<<>>} \cup UNION {{<<file>> \o rest : rest \in DirsOf(f - 1, n - Len(file))} :
                               file \in SeqsUpTo(RawLines, n)}

\* the directory listings: os.ReadDir returns the files sorted by name
RawDirs == DirsOf(MaxRawFiles, MaxRawLines)

ErrReadDir == "readdir failed"

ErrScan == "scan failed"

Pending == "pending"

InitIngest ==
    /\ TrackerInit /\ IdleQuery /\ IdleParse
    /\ rawlogs \in RawDirs
    /\ ingest = [pc |-> "start", file |-> 0, line |-> 0, ret |-> Pending,
                 outcome |-> [i \in 1..Len(rawlogs) |-> [err |-> Pending, line |-> 0]]]

\* convertProcessLogFile returns err at line n of the current file, and the
\* loop of ProcessRawLogFiles goes on to the next file.
FileReturns(err, n) ==
    [ingest EXCEPT !.outcome[ingest.file] = [err |-> err, line |-> n],
                   !.file = ingest.file + 1, !.line = 0, !.pc = "open"]

\* os.ReadDir(InputLogsDirPath)
ReadDir ==
    /\ ingest.pc = "start"
    /\ \/ ingest' = [ingest EXCEPT !.pc = "open", !.file = 1]
       \/ ingest' = [ingest EXCEPT !.pc = "done", !.ret = ErrReadDir]
    /\ UNCHANGED <<rawlogs, trackerVars, phase, queryResult, parseVars>>

\* os.OpenFile(logfileName, O_RDONLY) in convertProcessLogFile
OpenRawFile ==
    /\ ingest.pc = "open" /\ ingest.file <= Len(rawlogs)
    /\ \/ ingest' = [ingest EXCEPT !.pc = "scan", !.line = 1]
       \/ ingest' = FileReturns(ErrOpen, 0)
    /\ UNCHANGED <<rawlogs, trackerVars, phase, queryResult, parseVars>>

CurrentLine == rawlogs[ingest.file][ingest.line]

\* scanner.Scan() returns false: the file is read to its end
ScanEnd ==
    /\ ingest.pc = "scan" /\ ingest.line > Len(rawlogs[ingest.file])
    /\ ingest' = FileReturns(Nil, ingest.line)
    /\ UNCHANGED <<rawlogs, trackerVars, phase, queryResult, parseVars>>

\* scanner.Scan() returns false on a read error: scanner.Err() is returned
ScanError ==
    /\ ingest.pc = "scan"
    /\ ingest' = FileReturns(ErrScan, ingest.line)
    /\ UNCHANGED <<rawlogs, trackerVars, phase, queryResult, parseVars>>

\* ParseLogline fails on the scanned line
ScanParseError ==
    /\ ingest.pc = "scan" /\ ingest.line <= Len(rawlogs[ingest.file])
    /\ ParseLogline(CurrentLine).err # Nil
    /\ ingest' = FileReturns(ParseLogline(CurrentLine).err, ingest.line)
    /\ UNCHANGED <<rawlogs, trackerVars, phase, queryResult, parseVars>>

\* the scanned line is parsed and handed to Write
ScanWrite ==
    /\ ingest.pc = "scan" /\ ingest.line <= Len(rawlogs[ingest.file])
    /\ ParseLogline(CurrentLine).err = Nil
    /\ LET llObj == ParseLogline(CurrentLine).ll
       IN \E io \in IoFor(llObj) :
             /\ Write(llObj, io)
             /\ lastWrite' = WriteCall(llObj, io)
             /\ ingest' = IF WriteCall(llObj, io).err # Nil
                          THEN FileReturns(WriteCall(llObj, io).err, ingest.line)
                          ELSE [ingest EXCEPT !.line = ingest.line + 1]
    /\ UNCHANGED <<rawlogs, phase, queryResult, parseVars>>

\* the loop over the directory entries is over: return nil
ReturnNil ==
    /\ ingest.pc = "open" /\ ingest.file > Len(rawlogs)
    /\ ingest' = [ingest EXCEPT !.pc = "done", !.ret = Nil]
    /\ UNCHANGED <<rawlogs, trackerVars, phase, queryResult, parseVars>>

NextIngest ==
    \/ ReadDir \/ OpenRawFile \/ ScanEnd \/ ScanError
    \/ ScanParseError \/ ScanWrite \/ ReturnNil

SpecIngest == InitIngest /\ [][NextIngest]_vars

-----------------------------------------------------------------------------
(* Properties of the writer, checked under Spec.                           *)

\* the line that writeLogLine appends for ll
RenderedLine(ll) == String(ll) \o <<"\n">>

\* the backing store of thread t: the contents of its log file
StoreOf(t) == files[threadsMetadata[t].logFilepath]

\* the segment of t is closed: its end marker was written and its file released
Closed(t) == threadsMetadata[t].logFd.nil

HasSuffix(s, suffix) ==
    Len(s) >= Len(suffix) /\ SubSeq(s, Len(s) - Len(suffix) + 1, Len(s)) = suffix

\* line is the rendered text of a record whose message is marker
IsMarkerLine(line, marker) == HasSuffix(line, <<" ", "-", " ">> \o marker \o <<"\n">>)

\* C1: when every Write so far has succeeded, the backing store of each
\* thread id holds exactly the rendered records written for that thread id,
\* in the order they were written, and nothing else.
C1_Demultiplexing ==
    ~writeFailed =>
        \A t \in DOMAIN threadsMetadata :
            StoreOf(t) = [i \in 1..Len(WrittenOf(t)) |-> RenderedLine(WrittenOf(t)[i])]

\* C2: a Write for a thread id without a segment whose message is not the
\* start marker returns the "invalid start of thread logs" error and changes
\* neither the map of segments nor any file.
C2_InvalidStartRejected ==
    [][(/\ lastWrite'.op = "Write"
        /\ lastWrite'.threadID \notin DOMAIN threadsMetadata
        /\ lastWrite'.message # threadLogsStartMarker)
       => (/\ lastWrite'.err = ErrInvalidStart
           /\ threadsMetadata' = threadsMetadata
           /\ files' = files
           /\ written' = written)]_vars

\* a Write was rejected as an invalid start while another thread has a segment
\* with a written store
C2_Witness ==
    /\ lastWrite.op = "Write"
    /\ lastWrite.err = ErrInvalidStart
    /\ lastWrite.threadID \notin DOMAIN threadsMetadata
    /\ \E t \in DOMAIN threadsMetadata : Len(StoreOf(t)) > 0

\* C3: the backing store of every closed segment begins with a start-marker
\* record and ends with an end-marker record.
C3_StartEndInvariant ==
    \A t \in DOMAIN threadsMetadata :
        Closed(t) =>
            /\ Len(StoreOf(t)) > 0
            /\ IsMarkerLine(StoreOf(t)[1], threadLogsStartMarker)
            /\ IsMarkerLine(StoreOf(t)[Len(StoreOf(t))], threadLogsEndMarker)

\* C11: a Write for a thread id whose segment is closed returns an error and
\* changes neither the segment (start, end, closed) nor any store.
C11_PostCloseWriteRejected ==
    [][(/\ lastWrite'.op = "Write"
        /\ lastWrite'.threadID \in DOMAIN threadsMetadata
        /\ Closed(lastWrite'.threadID))
       => (/\ lastWrite'.err # Nil
           /\ threadsMetadata' = threadsMetadata
           /\ files' = files
           /\ written' = written)]_vars

\* a Write for a segment closed by its end marker was rejected, the store of
\* the segment holding its start and end lines
C11_Witness ==
    /\ lastWrite.op = "Write"
    /\ lastWrite.err = ErrInvalid
    /\ lastWrite.threadID \in DOMAIN threadsMetadata
    /\ Closed(lastWrite.threadID)
    /\ Len(StoreOf(lastWrite.threadID)) = 2
    /\ threadsMetadata[lastWrite.threadID].logsEndTimestamp # ZeroTime

\* the file of the segment md is released: closed by Close, or closed and set
\* to nil by the end marker
Released(md) == md.logFd.nil \/ md.logFd.closed

\* C12: Close releases the store of every segment that is still open and
\* changes nothing else: no closed segment, no other field of an open one, no
\* store; when no segment is open it changes no state. It reports no error.
C12_CloseReleasesOpenStores ==
    [][lastWrite'.op = "Close" =>
        (/\ lastWrite'.err = Nil
         /\ DOMAIN threadsMetadata' = DOMAIN threadsMetadata
         /\ \A t \in DOMAIN threadsMetadata :
               /\ Released(threadsMetadata'[t])
               /\ Closed(t) => threadsMetadata'[t] = threadsMetadata[t]
               /\ [threadsMetadata'[t] EXCEPT !.logFd = NilFd]
                     = [threadsMetadata[t] EXCEPT !.logFd = NilFd]
               /\ threadsMetadata'[t].logFd.name = threadsMetadata[t].logFd.name
         /\ (\A t \in DOMAIN threadsMetadata : Closed(t))
               => threadsMetadata' = threadsMetadata
         /\ files' = files
         /\ written' = written
         /\ writeFailed' = writeFailed)]_vars

\* Close was called with one segment closed by its end marker and another
\* one still open, whose file it released
C12_Witness ==
    /\ lastWrite.op = "Close"
    /\ \E t \in DOMAIN threadsMetadata :
          Closed(t) /\ Len(StoreOf(t)) = 2
    /\ \E t \in DOMAIN threadsMetadata :
          ~Closed(t) /\ threadsMetadata[t].logFd.closed

\* the end-marker records written for thread t
EndRecords(t) ==
    LET IsEnd(r) == r.message = threadLogsEndMarker IN SelectSeq(WrittenOf(t), IsEnd)

\* a segment is closed if and only if an end-marker record was written for
\* its thread id, and its end timestamp is that of the first such record
ClosedByEndMarker ==
    /\ \A t \in DOMAIN threadsMetadata :
          /\ Closed(t) <=> EndRecords(t) # <<>>
          /\ Closed(t) => threadsMetadata[t].logsEndTimestamp = EndRecords(t)[1].timestamp
    /\ \A t \in DOMAIN written : t \in DOMAIN threadsMetadata

\* this step is a Write of an end-marker record for the open segment of t
EndWrite(t) ==
    /\ lastWrite'.op = "Write"
    /\ lastWrite'.threadID = t
    /\ lastWrite'.message = threadLogsEndMarker
    /\ t \in DOMAIN threadsMetadata
    /\ ~Closed(t)

\* C14: a successful Write of an end-marker record to an open segment appends
\* the record to the store, sets the end timestamp to the record's and
\* releases the store, and a failed one changes nothing; a segment is closed
\* if and only if an end-marker record was written for its thread id, its end
\* timestamp being that of the first such record.
C14_OpenToClosed ==
    /\ []ClosedByEndMarker
    /\ [][\A t \in DOMAIN threadsMetadata :
            EndWrite(t) =>
               IF lastWrite'.err = Nil
               THEN LET ll == written'[t][Len(written'[t])]
                        path == threadsMetadata[t].logFilepath
                    IN /\ written'[t] = Append(WrittenOf(t), ll)
                       /\ ll.message = threadLogsEndMarker
                       /\ files' = [files EXCEPT ![path] = Append(@, RenderedLine(ll))]
                       /\ threadsMetadata' =
                             [threadsMetadata EXCEPT ![t].logsEndTimestamp = ll.timestamp,
                                                     ![t].logFd = NilFd]
               ELSE /\ threadsMetadata' = threadsMetadata
                    /\ files' = files
                    /\ written' = written]_vars

\* an end-marker record was written for a segment that started earlier: the
\* segment is closed, with the record's timestamp and the record in its store
C14_Witness ==
    /\ lastWrite.op = "Write"
    /\ lastWrite.message = threadLogsEndMarker
    /\ lastWrite.err = Nil
    /\ lastWrite.threadID \in DOMAIN threadsMetadata
    /\ Closed(lastWrite.threadID)
    /\ threadsMetadata[lastWrite.threadID].logsStartTimestamp = Time(0, 1)
    /\ threadsMetadata[lastWrite.threadID].logsEndTimestamp = Time(0, 2)
    /\ IsMarkerLine(StoreOf(lastWrite.threadID)[2], threadLogsEndMarker)

\* the fields of a segment that are set when it is created
CreationFields(md) == <<md.logsStartTimestamp, md.processId, md.logFilepath>>

\* C15: the start timestamp, process id and output path of a segment are set
\* when a start-marker record creates it and no later Write changes them; a
\* later record of the thread id written to the open segment, whatever its
\* message and process id, is appended to the store of that same segment.
C15_CreationFieldsSetOnce ==
    [][lastWrite'.op = "Write" =>
        LET t == lastWrite'.threadID
        IN /\ \A u \in DOMAIN threadsMetadata :
                 /\ u \in DOMAIN threadsMetadata'
                 /\ CreationFields(threadsMetadata'[u]) = CreationFields(threadsMetadata[u])
           /\ DOMAIN threadsMetadata' \subseteq DOMAIN threadsMetadata \cup {t}
           /\ (t \notin DOMAIN threadsMetadata /\ t \in DOMAIN threadsMetadata')
                 => /\ lastWrite'.message = threadLogsStartMarker
                    /\ threadsMetadata'[t].logFilepath =
                          mergeLogFilePath \o <<"/">> \o threadsMetadata'[t].processId
                             \o <<"-">> \o t \o <<".">> \o mergeLogFileExtension
                    /\ lastWrite'.err = Nil
                          => /\ threadsMetadata'[t].logsStartTimestamp = written'[t][1].timestamp
                             /\ threadsMetadata'[t].processId = written'[t][1].processID
           /\ (t \in DOMAIN threadsMetadata /\ lastWrite'.err = Nil)
                 => LET ll == written'[t][Len(written'[t])]
                        path == threadsMetadata[t].logFilepath
                    IN /\ written'[t] = Append(WrittenOf(t), ll)
                       /\ files' = [files EXCEPT ![path] = Append(@, RenderedLine(ll))]]_vars

\* a second start-marker record, of another process and with another
\* timestamp, was written for a thread id that has a segment
C15_Witness ==
    /\ lastWrite.op = "Write"
    /\ lastWrite.err = Nil
    /\ lastWrite.message = threadLogsStartMarker
    /\ lastWrite.threadID \in DOMAIN threadsMetadata
    /\ LET t == lastWrite.threadID
       IN /\ Len(WrittenOf(t)) = 2
          /\ Len(StoreOf(t)) = 2
          /\ written[t][1].message = threadLogsStartMarker
          /\ written[t][2].processID # threadsMetadata[t].processId
          /\ written[t][2].timestamp # threadsMetadata[t].logsStartTimestamp
          /\ written[t][1].timestamp = threadsMetadata[t].logsStartTimestamp

\* a Write leaves the segment of every thread id but its record's as it was
OtherSegmentsKept ==
    lastWrite'.op = "Write" =>
        \A y \in DOMAIN threadsMetadata \ {lastWrite'.threadID} :
            y \in DOMAIN threadsMetadata' /\ threadsMetadata'[y] = threadsMetadata[y]

\* a Write leaves the store of every thread id but its record's as it was
OtherStoresKept ==
    lastWrite'.op = "Write" =>
        \A y \in DOMAIN threadsMetadata \ {lastWrite'.threadID} :
            files'[threadsMetadata[y].logFilepath] = files[threadsMetadata[y].logFilepath]

\* C16: a Write of a record with thread id X, whether it succeeds or fails,
\* changes neither the segment nor the contents of the store of any other
\* thread id.
C16_Frame == [][OtherSegmentsKept /\ OtherStoresKept]_vars

\* C18: two segments with different thread ids have different output paths,
\* and the store of a segment holds lines of records of its thread id only.
C18_StoresNotShared ==
    /\ \A t, u \in DOMAIN threadsMetadata :
          t # u => threadsMetadata[t].logFilepath # threadsMetadata[u].logFilepath
    /\ \A t \in DOMAIN threadsMetadata :
          \A i \in DOMAIN StoreOf(t) :
             \E j \in DOMAIN WrittenOf(t) : StoreOf(t)[i] = RenderedLine(WrittenOf(t)[j])

-----------------------------------------------------------------------------
(* Properties of the ingestor, checked under SpecIngest.                   *)

\* convertProcessLogFile has returned an error for file i
FileFailed(i) == ingest.outcome[i].err \notin {Nil, Pending}

\* C4: when ProcessRawLogFiles has returned and the ingestion of some file
\* failed, the error it returned is not nil.
C4_CallerNotified ==
    (ingest.pc = "done" /\ \E i \in DOMAIN ingest.outcome : FileFailed(i))
        => ingest.ret # Nil

\* the number of lines of file i that were parsed and written: all of them
\* when the file was read to its end, those before the line it stopped at when
\* it failed, those before the current line while it is being read
OkCount(i) ==
    IF ingest.outcome[i].err = Pending
    THEN IF ingest.pc = "scan" /\ ingest.file = i THEN ingest.line - 1 ELSE 0
    ELSE IF ingest.outcome[i].err = Nil THEN Len(rawlogs[i])
    ELSE IF ingest.outcome[i].line = 0 THEN 0
    ELSE ingest.outcome[i].line - 1

RECURSIVE ExpectedRecords(_)
\* the records of the first OkCount(i) lines of the files 1..n, in order
ExpectedRecords(n) ==
    IF n = 0 THEN <<>>
    ELSE ExpectedRecords(n - 1)
         \o [j \in 1..OkCount(n) |-> ParseLogline(rawlogs[n][j]).ll]

RecordsOf(recs, t) == LET OfThread(r) == r.threadID = t IN SelectSeq(recs, OfThread)

\* Every file that failed stopped at one of its lines (or could not be
\* opened); what was written is exactly the lines before the failing line of
\* each file and every line of the files read to their end, in order; and once
\* ProcessRawLogFiles has gone through the directory every file was tried.
C5_LinesWritten ==
    /\ \A i \in DOMAIN ingest.outcome :
          /\ ingest.outcome[i].err \notin {Nil, Pending, ErrOpen, ErrScan}
                => ingest.outcome[i].line \in 1..Len(rawlogs[i])
          /\ ingest.outcome[i].err = ErrScan
                => ingest.outcome[i].line \in 1..(Len(rawlogs[i]) + 1)
          /\ \A j \in 1..OkCount(i) : ParseLogline(rawlogs[i][j]).err = Nil
    /\ \A t \in DOMAIN written \cup DOMAIN threadsMetadata :
          /\ WrittenOf(t) = RecordsOf(ExpectedRecords(Len(rawlogs)), t)
          /\ t \in DOMAIN threadsMetadata
          /\ StoreOf(t) = [k \in 1..Len(WrittenOf(t)) |-> RenderedLine(WrittenOf(t)[k])]
    /\ TotalLines = Len(ExpectedRecords(Len(rawlogs)))
    /\ (ingest.pc = "done" /\ ingest.ret = Nil)
          => \A i \in DOMAIN ingest.outcome : ingest.outcome[i].err # Pending

\* this step is convertProcessLogFile returning the error of ParseLogline or
\* of Write at a line of its file
LineFails ==
    /\ ingest.pc = "scan"
    /\ ingest'.pc = "open"
    /\ ingest'.outcome[ingest.file].err \notin {Nil, ErrScan}

\* C5: a line that fails to parse or whose Write fails aborts its file at that
\* line and changes no segment and no store; no later line of the file is
\* written, every earlier line stays written, and the other files are still
\* ingested (C5_LinesWritten).
C5_AbortAtFailingLine ==
    /\ []C5_LinesWritten
    /\ [][LineFails => (threadsMetadata' = threadsMetadata /\ files' = files)]_vars


-----------------------------------------------------------------------------
(* Properties of the queries, checked under SpecQuery.                     *)

\* a time as a number of milliseconds since the zero time
Ms(t) == t.day * MsPerDay + t.ms

Segments == DOMAIN threadsMetadata

StartOf(t) == Ms(threadsMetadata[t].logsStartTimestamp)

EndOf(t) == Ms(threadsMetadata[t].logsEndTimestamp)

\* the entry of query A for thread t
EntryOf(t) ==
    ThreadInfo(threadsMetadata[t].processId, t, threadsMetadata[t].logFilepath)

Occurrences(seq, x) == Cardinality({i \in DOMAIN seq : seq[i] = x})

\* C6: query A on [t1, t2] returns one entry for every segment with
\* NOT (t2 < start OR t1 > end), and nothing else.
C6_ActiveThreads ==
    queryResult.op = "A" =>
        LET t1 == Ms(queryResult.t1)
            t2 == Ms(queryResult.t2)
        IN /\ \A t \in Segments :
                 Occurrences(queryResult.value, EntryOf(t))
                    = IF ~(t2 < StartOf(t) \/ t1 > EndOf(t)) THEN 1 ELSE 0
           /\ \A i \in DOMAIN queryResult.value :
                 \E t \in Segments : queryResult.value[i] = EntryOf(t)

\* query A returned a segment that ends at t1, a segment that starts at t2,
\* and left out a third segment
C6_Witness ==
    /\ queryResult.op = "A"
    /\ \E t, u, v \in Segments :
          /\ StartOf(t) < EndOf(t) /\ EndOf(t) = Ms(queryResult.t1)
          /\ StartOf(u) = Ms(queryResult.t2) /\ StartOf(u) > Ms(queryResult.t1)
          /\ Occurrences(queryResult.value, EntryOf(t)) = 1
          /\ Occurrences(queryResult.value, EntryOf(u)) = 1
          /\ Occurrences(queryResult.value, EntryOf(v)) = 0
    /\ Len(queryResult.value) = 2

RECURSIVE MaxOf(_)
\* the largest number of a finite set of naturals, 0 for the empty set
MaxOf(S) ==
    IF S = {} THEN 0
    ELSE LET x == CHOOSE y \in S : TRUE
             m == MaxOf(S \ {x})
         IN IF x > m THEN x ELSE m

\* the number of threads alive at the instant ms: started, and not yet ended
AliveAt(ms) == Cardinality({t \in Segments : StartOf(t) <= ms /\ ms < EndOf(t)})

\* the same, a thread counting as alive at the instant it ends
AliveUpTo(ms) == Cardinality({t \in Segments : StartOf(t) <= ms /\ ms <= EndOf(t)})

\* the peak a sweep over the sorted start and end events finds: the number of
\* threads alive changes at those instants only and rises only at a start.
\* At an instant where one thread ends and another starts the sweep handles
\* the end first (SweepPeak) or the start first (SweepPeakInclusive).
SweepPeak == MaxOf({AliveAt(StartOf(t)) : t \in Segments})

SweepPeakInclusive == MaxOf({AliveUpTo(StartOf(t)) : t \in Segments})

\* every segment has ended, later than it started
ProperLifetimes == \A t \in Segments : Closed(t) /\ StartOf(t) < EndOf(t)

\* C7: the peak that query B reports is the maximum number of threads alive
\* at the same instant, the peak of a sweep over the start and end events
\* (here for threads that all ended after they started, and with either
\* handling of an end that meets a start).
C7_PeakIsMaxAlive ==
    (queryResult.op = "B" /\ ProperLifetimes)
        => queryResult.value.maxConcurrency \in {SweepPeak, SweepPeakInclusive}

\* the count of C8 for segment a: the segments that start in [start, end) of a
StartsWithin(a) ==
    Cardinality({b \in Segments : StartOf(a) <= StartOf(b) /\ StartOf(b) < EndOf(a)})

\* C8 as stated: query B returns the maximum over every segment A of the
\* number of segments that start in [A.start, A.end).
C8_AsStated ==
    queryResult.op = "B" =>
        queryResult.value.maxConcurrency = MaxOf({StartsWithin(a) : a \in Segments})

\* the count of segment a in query B: the segments that start when a starts,
\* or after a starts and before a ends
StartsWithOrWithin(a) ==
    Cardinality({b \in Segments :
        \/ StartOf(b) = StartOf(a)
        \/ (StartOf(a) < StartOf(b) /\ StartOf(b) < EndOf(a))})

\* C8 as amended: query B returns the maximum over every segment A of the
\* number of segments that start when A starts or after A starts and before
\* A ends (0 without segments); that number is the one of C8 as stated when
\* A ends later than it starts.
C8_PeakIsMaxCount ==
    queryResult.op = "B" =>
        /\ queryResult.value.maxConcurrency
              = MaxOf({StartsWithOrWithin(a) : a \in Segments})
        /\ \A a \in Segments :
              StartOf(a) < EndOf(a) => StartsWithOrWithin(a) = StartsWithin(a)

\* query B was asked with a segment that does not end later than it starts
\* and is counted together with another segment that starts at the same time
C8_Witness ==
    /\ queryResult.op = "B"
    /\ \E a, b \in Segments :
          /\ a # b
          /\ Closed(a) /\ EndOf(a) <= StartOf(a)
          /\ StartOf(b) = StartOf(a)
          /\ StartsWithOrWithin(a) = queryResult.value.maxConcurrency
          /\ StartsWithin(a) = 0
    /\ queryResult.value.maxConcurrency = 2

\* what query B returns when its loops visit the map in the order o
PeakUnder(o) == GetMaxConcurrencyAndEpoch(threadsMetadata, o)

\* C17: the peak that query B returns is the one it returns under every
\* iteration order of the map; the epoch is the start of a segment whose own
\* count (the number of segments that start when it starts, or after it
\* starts and before it ends) is the peak; without segments the peak is 0.
C17_PeakOrderIndependent ==
    queryResult.op = "B" =>
        /\ \A o \in Orders(Segments) :
              PeakUnder(o).maxConcurrency = queryResult.value.maxConcurrency
        /\ Segments = {} => queryResult.value.maxConcurrency = 0
        /\ Segments # {} =>
              \E a \in Segments :
                 /\ StartOf(a) = Ms(queryResult.value.epoch)
                 /\ StartsWithOrWithin(a) = queryResult.value.maxConcurrency

\* query B returned the peak 2 of three segments, two of which have that
\* count and start at different times, so that another iteration order
\* returns another epoch
C17_Witness ==
    /\ queryResult.op = "B"
    /\ Cardinality(Segments) = 3
    /\ queryResult.value.maxConcurrency = 2
    /\ \E o \in Orders(Segments) : PeakUnder(o).epoch # queryResult.value.epoch

RECURSIVE SumOver(_, _)
\* the sum of f over the finite set S
SumOver(f, S) ==
    IF S = {} THEN 0
    ELSE LET x == CHOOSE y \in S : TRUE IN f[x] + SumOver(f, S \ {x})

\* endTimestamp - startTimestamp of every segment, in milliseconds
Runtimes == [t \in Segments |-> EndOf(t) - StartOf(t)]

Unended == {t \in Segments : ~Closed(t)}

\* C19: a segment without end marker keeps the zero end timestamp; query A
\* leaves it out of every range whose t1 is later than the zero time; queries
\* B and C count it: its count, and its start within the count of the others,
\* enter the peak, and its runtime enters the mean over all n segments.
C19_UnendedSegments ==
    /\ \A t \in Unended : threadsMetadata[t].logsEndTimestamp = ZeroTime
    /\ (queryResult.op = "A" /\ Ms(queryResult.t1) > 0) =>
          \A t \in Unended : Occurrences(queryResult.value, EntryOf(t)) = 0
    /\ queryResult.op = "B" =>
          \A a \in Segments : queryResult.value.maxConcurrency >= StartsWithOrWithin(a)
    /\ (queryResult.op = "C" /\ Segments # {}) =>
          FracEq(queryResult.value.avg,
                 Frac(SumOver(Runtimes, Segments), Cardinality(Segments)))

\* query A was asked for a range that starts after the zero time and holds
\* the start of a segment without end marker, and returned only a segment
\* that has ended
C19_Witness ==
    /\ queryResult.op = "A"
    /\ Ms(queryResult.t1) > 0
    /\ Len(queryResult.value) = 1
    /\ \E t \in Unended :
          /\ Ms(queryResult.t1) <= StartOf(t)
          /\ StartOf(t) <= Ms(queryResult.t2)
    /\ \E t \in Segments \ Unended : queryResult.value[1] = EntryOf(t)

-----------------------------------------------------------------------------
(* Properties of the parser, checked under SpecParse.                      *)

\* the line of the canonical grammar for the record ll
CanonicalLine(ll) ==
    ll.processID \o <<":">> \o ll.threadID \o <<":", ":">> \o ll.threadName
       \o <<" ">> \o TimeFormatCanonical(ll.timestamp) \o <<" ", "-", " ">> \o ll.message

\* lineText is a line of the grammar: it parses, its process id, thread id
\* and thread name are not empty, and it is written as the grammar writes it
WellFormedLine ==
    /\ parsed.done /\ parsed.err = Nil
    /\ parsed.ll.processID # <<>> /\ parsed.ll.threadID # <<>>
    /\ parsed.ll.threadName # <<>>
    /\ lineText = CanonicalLine(parsed.ll)

\* C10: the text String() renders for the record of a well-formed line is a
\* line of the canonical grammar, and ParseLogline of it succeeds and returns
\* the same processId, threadId, threadName, timestamp and message.
C10_RoundTrip ==
    (rendered.done /\ WellFormedLine) =>
        /\ rendered.text = CanonicalLine(parsed.ll)
        /\ rendered.again.err = Nil
        /\ rendered.again.ll = parsed.ll

\* C13: a record that ParseLogline returns without error has a non-empty
\* processId, threadId and threadName; a failed parse returns no record.
C13_NonEmptyFields ==
    parsed.done =>
        IF parsed.err = Nil
        THEN /\ parsed.ll.processID # <<>>
             /\ parsed.ll.threadID # <<>>
             /\ parsed.ll.threadName # <<>>
        ELSE parsed.ll = NilLogLine

====
